---- MODULE Spec2Model ----
(***************************************************************************)
(* Model of mxnumplan.py: the Pattern class (constructor trim, ordering,   *)
(* rendering, expansion, summarization), optimize_patterns and             *)
(* list_compare.                                                           *)
(*                                                                         *)
(* Python strings are sequences of character codes: the digits '0'..'9'    *)
(* are 0..9 and the letter 'x' (greater than every digit) is CharX.        *)
(* A Pattern object is a record [prefix, start, end, summary] of strings.  *)
(***************************************************************************)
EXTENDS Integers, Sequences, FiniteSets, Bags, TLC

VARIABLES lc, sm, ex, cmp, op

vars == <<lc, sm, ex, cmp, op>>

(***************************************************************************)
(* Strings                                                                 *)
(***************************************************************************)
Digits == 0..9

\* the character 'x' of the summarize end marker; any code above '9'
CharX == 10

\* the character standing for any non-digit, non-'x' character in a CSV field
CharA == 11

\* Python None where a string is expected (prefix = None)
None == <<-1>>

\* s[:-1]
Front(s) == IF Len(s) = 0 THEN <<>> ELSE SubSeq(s, 1, Len(s) - 1)

\* s[-1]
Last(s) == s[Len(s)]

Range(s) == {s[k] : k \in DOMAIN s}

\* Python str.__lt__: lexicographic by character code, a proper prefix is less
RECURSIVE StrLt(_, _)
StrLt(a, b) ==
    IF a = <<>> THEN b # <<>>
    ELSE IF b = <<>> THEN FALSE
    ELSE IF a[1] # b[1] THEN a[1] < b[1]
    ELSE StrLt(Tail(a), Tail(b))

StrGt(a, b) == StrLt(b, a)

\* int(s) for a string of decimal digits
RECURSIVE StrToInt(_)
StrToInt(s) == IF s = <<>> THEN 0 ELSE 10 * StrToInt(Front(s)) + Last(s)

\* str(n) for n >= 0
RECURSIVE IntToStr(_)
IntToStr(n) == IF n < 10 THEN <<n>> ELSE Append(IntToStr(n \div 10), n % 10)

RECURSIVE ZeroPad(_, _)
ZeroPad(s, w) == IF Len(s) >= w THEN s ELSE ZeroPad(<<0>> \o s, w)

\* f'{n:0{w}}': decimal, zero-padded to at least w characters
Format(n, w) == ZeroPad(IntToStr(n), w)

(***************************************************************************)
(* class Pattern                                                           *)
(***************************************************************************)

\* the while loop of __init__ on (start, end); raised is the IndexError of
\* self.start[-1] on an empty start
TrimOnce(start, end) ==
    IF end # <<>> /\ Last(end) = 9 /\ start # <<>> /\ Last(start) = 0
    THEN [start |-> Front(start), end |-> Front(end), raised |-> FALSE]
    ELSE [start |-> start, end |-> end,
          raised |-> end # <<>> /\ Last(end) = 9 /\ start = <<>>]

RECURSIVE Trim(_, _)
Trim(start, end) ==
    IF end # <<>> /\ Last(end) = 9
    THEN IF start = <<>>
         THEN [start |-> start, end |-> end, raised |-> TRUE]
         ELSE IF Last(start) = 0
              THEN Trim(Front(start), Front(end))
              ELSE [start |-> start, end |-> end, raised |-> FALSE]
    ELSE [start |-> start, end |-> end, raised |-> FALSE]

\* Pattern(p, start, end) with start given; the constructor raises when the
\* trim loop indexes an empty start
Pattern_init_raises(start, end) == Trim(start, end).raised

Pattern_init(p, start, end) ==
    LET t == Trim(start, end)
    IN  [prefix |-> p, start |-> t.start, end |-> t.end, summary |-> <<>>]

\* Pattern(prefix, '', '')
Simple(prefix) == Pattern_init(prefix, <<>>, <<>>)

\* a simple pattern whose summary attribute was assigned afterwards
DigitSet(prefix, summary) == [Simple(prefix) EXCEPT !.summary = summary]

Pattern_lt_NoSummary(self, other) ==
    \/ StrLt(self.prefix, other.prefix)
    \/ /\ self.prefix = other.prefix
       /\ StrLt(self.start, other.start)

Pattern_lt(self, other) ==
    \/ StrLt(self.prefix, other.prefix)
    \/ /\ self.prefix = other.prefix
       /\ \/ StrLt(self.start, other.start)
          \/ /\ self.start = other.start
             /\ StrLt(self.summary, other.summary)

Pattern_eq(self, other) ==
    /\ self.prefix = other.prefix
    /\ self.start = other.start
    /\ self.end = other.end
    /\ self.summary = other.summary

Pattern_gt(self, other) ==
    \/ StrGt(self.prefix, other.prefix)
    \/ /\ self.prefix = other.prefix
       /\ \/ StrGt(self.start, other.start)
          \/ /\ self.start = other.start
             /\ StrGt(self.summary, other.summary)

\* for_ucm: the rendered pattern as a sequence of admissible-character sets,
\* one per position: '\+52', the prefix, then [summary] or nothing, then the
\* 'X' filler ('X' * n is empty for n <= 0); a range pattern renders the
\* text 'None'
Rep(c, n) == [k \in 1..n |-> c]

for_ucm(self) ==
    LET lit(str) == [k \in 1..Len(str) |-> {str[k]}]
    IN  IF self.start # <<>>
        THEN lit(<<5, 2>>) \o Rep({CharA}, 4)
        ELSE IF self.summary # <<>>
        THEN lit(<<5, 2>>) \o lit(self.prefix) \o <<Range(self.summary)>>
                 \o Rep(Digits, 9 - Len(self.prefix))
        ELSE lit(<<5, 2>>) \o lit(self.prefix) \o Rep(Digits, 10 - Len(self.prefix))

\* expand(): the simple patterns prefix + f'{i:0{digits}}' for i in
\* range(int(start), int(end) + 1), or the pattern itself when start is empty
expand_stop_Exclusive(self) == StrToInt(self.end)

expand_stop(self) == StrToInt(self.end) + 1

expand(self) ==
    IF self.start = <<>> THEN <<self>>
    ELSE LET digits == Len(self.start)
             first == StrToInt(self.start)
             n == expand_stop(self) - first
         IN  [k \in 1..n |-> Simple(self.prefix \o Format(first + k - 1, digits))]

RECURSIVE expand_patterns(_)
expand_patterns(i) ==
    IF i = <<>> THEN <<>> ELSE expand(Head(i)) \o expand_patterns(Tail(i))

\* chain(i, [Pattern('x' * pattern_len, '', '')])
Marker(pattern_len) == Simple(Rep(CharX, pattern_len))

Chain_NoMarker(i, pattern_len) == i

Chain(i, pattern_len) == Append(i, Marker(pattern_len))

\* lines 250-255: the pattern ejected for a finished series
summary_pattern_AlwaysWildcard(prefix, summary) ==
    IF Len(summary) = 1 THEN Simple(prefix \o summary) ELSE Simple(prefix)

summary_pattern(prefix, summary) ==
    IF Len(summary) = 1 THEN Simple(prefix \o summary)
    ELSE IF Len(summary) # 10 THEN DigitSet(prefix, summary)
    ELSE Simple(prefix)

\* as summarize_step, but a series is told apart by the whole prefix
summarize_step_WholePrefix(st, pattern, pattern_len) ==
    IF Len(pattern.prefix) # pattern_len
    THEN [st EXCEPT !.out = Append(@, pattern)]
    ELSE IF pattern.summary # <<>>
    THEN [st EXCEPT !.out = Append(@, pattern)]
    ELSE IF st.prefix = None \/ pattern.prefix # st.prefix
    THEN [prefix |-> Front(pattern.prefix),
          summary |-> <<Last(pattern.prefix)>>,
          out |-> IF st.prefix # None
                  THEN Append(st.out, summary_pattern(st.prefix, st.summary))
                  ELSE st.out]
    ELSE [st EXCEPT !.summary = Append(@, Last(pattern.prefix))]

\* one iteration of the for loop of summarize on the loop state
\* st = [prefix, summary, out]; out collects what was yielded
summarize_step(st, pattern, pattern_len) ==
    IF Len(pattern.prefix) # pattern_len
    THEN [st EXCEPT !.out = Append(@, pattern)]
    ELSE IF pattern.summary # <<>>
    THEN [st EXCEPT !.out = Append(@, pattern)]
    ELSE IF st.prefix = None \/ Front(pattern.prefix) # st.prefix
    THEN [prefix |-> Front(pattern.prefix),
          summary |-> <<Last(pattern.prefix)>>,
          out |-> IF st.prefix # None
                  THEN Append(st.out, summary_pattern(st.prefix, st.summary))
                  ELSE st.out]
    ELSE [st EXCEPT !.summary = Append(@, Last(pattern.prefix))]

RECURSIVE summarize_loop(_, _, _, _)
summarize_loop(st, c, pos, pattern_len) ==
    IF pos > Len(c) THEN st.out
    ELSE summarize_loop(summarize_step(st, c[pos], pattern_len), c, pos + 1, pattern_len)

\* summarize has no check of its argument: nothing is raised on entry
summarize_raises_Unsorted(i, pattern_len) ==
    \E k \in 1..(Len(i) - 1) : Pattern_gt(i[k], i[k + 1])

summarize_raises(i, pattern_len) == FALSE

\* [p for p in Pattern.summarize(i, pattern_len)]
summarize(i, pattern_len) ==
    summarize_loop([prefix |-> None, summary |-> <<>>, out |-> <<>>],
                   Chain(i, pattern_len), 1, pattern_len)

(***************************************************************************)
(* list_compare(old, new)                                                  *)
(*                                                                         *)
(* lc.i_old / lc.i_new are the iterators (number of items already taken),  *)
(* lc.head_old / lc.head_new hold <<>> for None and <<p>> for a pattern,   *)
(* lc.iters counts the executions of the body of `while True`.             *)
(***************************************************************************)
MaxList == 3

P555_12 == DigitSet(<<5, 5, 5>>, <<1, 2>>)
P555_13 == DigitSet(<<5, 5, 5>>, <<1, 3>>)
P555_14 == DigitSet(<<5, 5, 5>>, <<1, 4>>)
P5551 == Simple(<<5, 5, 5, 1>>)

CompareUniverse == {P555_12, P555_13, P555_14, P5551}

SeqsUpTo(S, n) == UNION {[1..k -> S] : k \in 0..n}

LcIdle == [pc |-> "idle"]
SmIdle == [pc |-> "idle"]
ExIdle == [pc |-> "idle"]
CmpIdle == [pc |-> "idle"]
OpIdle == [pc |-> "idle"]

\* next(it, None) on the iterator at position i of list l
IterNext(l, i) ==
    IF i < Len(l) THEN [head |-> <<l[i + 1]>>, i |-> i + 1]
    ELSE [head |-> <<>>, i |-> i]

\* [e for e in it]: what is left in the iterator at position i of list l
IterRest(l, i) == SubSeq(l, i + 1, Len(l))

InitCompare ==
    /\ \E old \in SeqsUpTo(CompareUniverse, MaxList) :
       \E new \in SeqsUpTo(CompareUniverse, MaxList) :
          lc = [pc |-> "call", old |-> old, new |-> new,
                i_old |-> 0, i_new |-> 0, head_old |-> <<>>, head_new |-> <<>>,
                added |-> <<>>, deleted |-> <<>>, iters |-> 0]
    /\ sm = SmIdle
    /\ ex = ExIdle
    /\ cmp = CmpIdle
    /\ op = OpIdle

\* list_compare has no check of its arguments: nothing is raised on entry
list_compare_raises(old, new) == FALSE

\* lines 341-343
lc_begin ==
    /\ lc.pc = "call"
    /\ LET no == IterNext(lc.old, 0)
           nn == IterNext(lc.new, 0)
       IN  lc' = [lc EXCEPT !.pc = IF list_compare_raises(lc.old, lc.new)
                                   THEN "raised" ELSE "loop",
                            !.added = <<>>, !.deleted = <<>>,
                            !.i_old = no.i, !.head_old = no.head,
                            !.i_new = nn.i, !.head_new = nn.head]
    /\ UNCHANGED <<sm, ex, cmp, op>>

\* lines 345-346
lc_both_exhausted ==
    /\ lc.pc = "loop"
    /\ lc.head_old = <<>> /\ lc.head_new = <<>>
    /\ lc' = [lc EXCEPT !.pc = "done", !.iters = @ + 1]
    /\ UNCHANGED <<sm, ex, cmp, op>>

\* lines 347-350
lc_old_exhausted ==
    /\ lc.pc = "loop"
    /\ lc.head_old = <<>> /\ lc.head_new # <<>>
    /\ lc' = [lc EXCEPT !.pc = "done", !.iters = @ + 1,
                        !.added = @ \o IterRest(lc.new, lc.i_new),
                        !.i_new = Len(lc.new)]
    /\ UNCHANGED <<sm, ex, cmp, op>>

\* lines 351-354
lc_new_exhausted ==
    /\ lc.pc = "loop"
    /\ lc.head_old # <<>> /\ lc.head_new = <<>>
    /\ lc' = [lc EXCEPT !.pc = "done", !.iters = @ + 1,
                        !.deleted = @ \o IterRest(lc.old, lc.i_old),
                        !.i_old = Len(lc.old)]
    /\ UNCHANGED <<sm, ex, cmp, op>>

\* the three branches of lines 355-362 on two non-None heads
lc_merge_EqualEmits(s, ho, hn) ==
    LET no == IterNext(s.old, s.i_old)
        nn == IterNext(s.new, s.i_new)
    IN  IF Pattern_eq(ho, hn)
        THEN [s EXCEPT !.added = Append(@, hn),
                       !.i_old = no.i, !.head_old = no.head,
                       !.i_new = nn.i, !.head_new = nn.head]
        ELSE IF Pattern_gt(ho, hn)
        THEN [s EXCEPT !.added = Append(@, hn),
                       !.i_new = nn.i, !.head_new = nn.head]
        ELSE [s EXCEPT !.deleted = Append(@, ho),
                       !.i_old = no.i, !.head_old = no.head]

lc_merge(s, ho, hn) ==
    LET no == IterNext(s.old, s.i_old)
        nn == IterNext(s.new, s.i_new)
    IN  IF Pattern_eq(ho, hn)
        THEN [s EXCEPT !.i_old = no.i, !.head_old = no.head,
                       !.i_new = nn.i, !.head_new = nn.head]
        ELSE IF Pattern_gt(ho, hn)
        THEN [s EXCEPT !.added = Append(@, hn),
                       !.i_new = nn.i, !.head_new = nn.head]
        ELSE [s EXCEPT !.deleted = Append(@, ho),
                       !.i_old = no.i, !.head_old = no.head]

\* lines 355-356
lc_equal ==
    /\ lc.pc = "loop"
    /\ lc.head_old # <<>> /\ lc.head_new # <<>>
    /\ Pattern_eq(lc.head_old[1], lc.head_new[1])
    /\ lc' = [lc_merge(lc, lc.head_old[1], lc.head_new[1]) EXCEPT !.iters = @ + 1]
    /\ UNCHANGED <<sm, ex, cmp, op>>

\* lines 357-359
lc_greater ==
    /\ lc.pc = "loop"
    /\ lc.head_old # <<>> /\ lc.head_new # <<>>
    /\ ~Pattern_eq(lc.head_old[1], lc.head_new[1])
    /\ Pattern_gt(lc.head_old[1], lc.head_new[1])
    /\ lc' = [lc_merge(lc, lc.head_old[1], lc.head_new[1]) EXCEPT !.iters = @ + 1]
    /\ UNCHANGED <<sm, ex, cmp, op>>

\* lines 360-362
lc_else ==
    /\ lc.pc = "loop"
    /\ lc.head_old # <<>> /\ lc.head_new # <<>>
    /\ ~Pattern_eq(lc.head_old[1], lc.head_new[1])
    /\ ~Pattern_gt(lc.head_old[1], lc.head_new[1])
    /\ lc' = [lc_merge(lc, lc.head_old[1], lc.head_new[1]) EXCEPT !.iters = @ + 1]
    /\ UNCHANGED <<sm, ex, cmp, op>>

NextCompare ==
    \/ lc_begin
    \/ lc_both_exhausted
    \/ lc_old_exhausted
    \/ lc_new_exhausted
    \/ lc_equal
    \/ lc_greater
    \/ lc_else

SpecCompare == InitCompare /\ [][NextCompare]_vars

(***************************************************************************)
(* Properties of list_compare                                              *)
(***************************************************************************)
\* sorted ascending under the Pattern order and free of duplicates
StrictlySorted(s) == \A k \in 1..(Len(s) - 1) : Pattern_lt(s[k], s[k + 1])

\* s is an order-preserving subsequence of t
RECURSIVE IsSubseq(_, _)
IsSubseq(s, t) ==
    IF s = <<>> THEN TRUE
    ELSE IF t = <<>> THEN FALSE
    ELSE IF s[1] = t[1] THEN IsSubseq(Tail(s), Tail(t))
    ELSE IsSubseq(s, Tail(t))

LcReturned == lc.pc = "done"

LcPre == StrictlySorted(lc.old) /\ StrictlySorted(lc.new)

\* C1: for sorted duplicate-free old and new, list_compare returns
\* (deleted, added) with set(deleted) = set(old) - set(new) and
\* set(added) = set(new) - set(old).
C1_DiffIsSetDifference ==
    (LcReturned /\ LcPre) =>
        /\ Range(lc.deleted) = Range(lc.old) \ Range(lc.new)
        /\ Range(lc.added) = Range(lc.new) \ Range(lc.old)

\* C10: for sorted duplicate-free old and new, deleted is an order-preserving
\* subsequence of old and added one of new (hence both sorted and
\* duplicate-free), no element of both old and new is in deleted or added,
\* and the loop body runs at most |old| + |new| + 1 times.
C10_DiffIsSubsequence ==
    /\ (lc.pc \in {"loop", "done"} /\ LcPre) =>
          lc.iters <= Len(lc.old) + Len(lc.new) + 1
    /\ (LcReturned /\ LcPre) =>
          /\ IsSubseq(lc.deleted, lc.old)
          /\ IsSubseq(lc.added, lc.new)
          /\ StrictlySorted(lc.deleted)
          /\ StrictlySorted(lc.added)
          /\ Range(lc.deleted) \cap (Range(lc.old) \cap Range(lc.new)) = {}
          /\ Range(lc.added) \cap (Range(lc.old) \cap Range(lc.new)) = {}

\* a merge over two sorted lists that emitted to both outputs and skipped a
\* common element
C10_Witness ==
    /\ LcReturned /\ LcPre
    /\ lc.deleted # <<>> /\ lc.added # <<>>
    /\ Range(lc.old) \cap Range(lc.new) # {}
    /\ lc.iters >= 3

(***************************************************************************)
(* Pattern.summarize(i, pattern_len), one loop iteration per step          *)
(*                                                                         *)
(* sm.i is the argument, sm.pos the position in chain(i, [marker]) of the  *)
(* next pattern, sm.prefix / sm.summary the locals, sm.out what has been   *)
(* yielded so far.                                                         *)
(***************************************************************************)
MinPatternLen == 3
MaxPatternLen == 10

\* how far into the input a duplicate or a swapped pair may be placed
MaxPerturb == 2

BaseNumber == <<5, 5, 5, 1, 2, 3, 4, 5, 6, 7>>

\* the first pattern_len - 1 digits shared by the first series
Stem(pattern_len) == SubSeq(BaseNumber, 1, pattern_len - 1)

\* a second series prefix of the same length, sorting after the first
Stem2(pattern_len) ==
    [Stem(pattern_len) EXCEPT ![pattern_len - 1] = @ + 1]

BlockDigits == {1, 2, 3, 4, 6, 7, 8}

\* patterns that pass through: one shorter, one longer, one digit-set
PassUniverse(pattern_len) ==
    { Simple(Stem(pattern_len)),
      Simple(Stem(pattern_len) \o <<0, 5>>),
      DigitSet(Stem(pattern_len) \o <<3>>, <<1, 2>>) }

\* the sorted list of a set of simple / digit-set patterns
RECURSIVE SortedSeqOf(_)
SortedSeqOf(S) ==
    IF S = {} THEN <<>>
    ELSE LET m == CHOOSE x \in S : \A y \in S \ {x} : Pattern_lt(x, y)
         IN  <<m>> \o SortedSeqOf(S \ {m})

Duplicate(s, k) ==
    IF k \in 1..Len(s)
    THEN SubSeq(s, 1, k) \o <<s[k]>> \o SubSeq(s, k + 1, Len(s))
    ELSE s

Swap(s, k) ==
    IF k \in 1..(Len(s) - 1)
    THEN [s EXCEPT ![k] = s[k + 1], ![k + 1] = s[k]]
    ELSE s

SummarizeInputs(pattern_len) ==
    LET bases ==
          { SortedSeqOf({Simple(Stem(pattern_len) \o <<d>>) :
                             d \in ds \cup (IF blk THEN BlockDigits ELSE {})}
                        \cup (IF g2 THEN {Simple(Stem2(pattern_len) \o <<0>>)} ELSE {})
                        \cup ps) :
              ds \in SUBSET {0, 5, 9}, blk \in BOOLEAN, g2 \in BOOLEAN,
              ps \in SUBSET PassUniverse(pattern_len) }
    IN  bases
        \cup {Duplicate(b, k) : b \in bases, k \in 1..MaxPerturb}
        \cup {Swap(b, k) : b \in bases, k \in 1..MaxPerturb}

InitSummarize ==
    /\ \E pattern_len \in MinPatternLen..MaxPatternLen :
       \E i \in SummarizeInputs(pattern_len) :
          sm = [pc |-> "call", i |-> i, pattern_len |-> pattern_len, pos |-> 0,
                prefix |-> None, summary |-> <<>>, out |-> <<>>]
    /\ lc = LcIdle
    /\ ex = ExIdle
    /\ cmp = CmpIdle
    /\ op = OpIdle

SmChain == Chain(sm.i, sm.pattern_len)

SmCurrent == SmChain[sm.pos]

SmLocals == [prefix |-> sm.prefix, summary |-> sm.summary, out |-> sm.out]

SmAfterStep ==
    LET st == summarize_step(SmLocals, SmCurrent, sm.pattern_len)
    IN  [sm EXCEPT !.prefix = st.prefix, !.summary = st.summary,
                   !.out = st.out, !.pos = @ + 1]

SmInLoop == sm.pc = "loop" /\ sm.pos <= Len(SmChain)

\* line 235
sm_begin ==
    /\ sm.pc = "call"
    /\ sm' = [sm EXCEPT !.pc = IF summarize_raises(sm.i, sm.pattern_len)
                                THEN "raised" ELSE "loop",
                        !.prefix = None, !.pos = 1]
    /\ UNCHANGED <<lc, ex, cmp, op>>

\* lines 238-241
sm_other_length ==
    /\ SmInLoop
    /\ Len(SmCurrent.prefix) # sm.pattern_len
    /\ sm' = SmAfterStep
    /\ UNCHANGED <<lc, ex, cmp, op>>

\* lines 242-245
sm_summary_pattern ==
    /\ SmInLoop
    /\ Len(SmCurrent.prefix) = sm.pattern_len
    /\ SmCurrent.summary # <<>>
    /\ sm' = SmAfterStep
    /\ UNCHANGED <<lc, ex, cmp, op>>

\* lines 246-264
sm_new_series ==
    /\ SmInLoop
    /\ Len(SmCurrent.prefix) = sm.pattern_len
    /\ SmCurrent.summary = <<>>
    /\ sm.prefix = None \/ Front(SmCurrent.prefix) # sm.prefix
    /\ sm' = SmAfterStep
    /\ UNCHANGED <<lc, ex, cmp, op>>

\* lines 265-267
sm_same_series ==
    /\ SmInLoop
    /\ Len(SmCurrent.prefix) = sm.pattern_len
    /\ SmCurrent.summary = <<>>
    /\ ~(sm.prefix = None \/ Front(SmCurrent.prefix) # sm.prefix)
    /\ sm' = SmAfterStep
    /\ UNCHANGED <<lc, ex, cmp, op>>

\* line 270
sm_return ==
    /\ sm.pc = "loop"
    /\ sm.pos > Len(SmChain)
    /\ sm' = [sm EXCEPT !.pc = "done"]
    /\ UNCHANGED <<lc, ex, cmp, op>>

NextSummarize ==
    \/ sm_begin
    \/ sm_other_length
    \/ sm_summary_pattern
    \/ sm_new_series
    \/ sm_same_series
    \/ sm_return

SpecSummarize == InitSummarize /\ [][NextSummarize]_vars

(***************************************************************************)
(* Properties of summarize                                                 *)
(***************************************************************************)
SmReturned == sm.pc = "done"

\* sorted under the Pattern order, equal neighbours allowed
Sorted(s) == \A k \in 1..(Len(s) - 1) : ~Pattern_gt(s[k], s[k + 1])

\* a dialled number +52 n matches a rendered pattern
Matches(n, ucm) ==
    /\ Len(ucm) = Len(n) + 2
    /\ ucm[1] = {5} /\ ucm[2] = {2}
    /\ \A k \in 1..Len(n) : n[k] \in ucm[k + 2]

\* 10-digit numbers that tell the patterns around Stem(pattern_len) apart:
\* three values at position pattern_len - 1, every digit at position
\* pattern_len, three values at position pattern_len + 1
TestNumbers(pattern_len) ==
    LET s == Stem(pattern_len)[pattern_len - 1]
    IN  { [k \in 1..10 |-> IF k = pattern_len - 1 THEN a
                           ELSE IF k = pattern_len THEN b
                           ELSE IF k = pattern_len + 1 THEN c
                           ELSE BaseNumber[k]] :
            a \in {s, s + 1, s + 2}, b \in Digits, c \in {0, 5, 7} }

MatchedBy(pats, pattern_len) ==
    { n \in TestNumbers(pattern_len) :
        \E k \in DOMAIN pats : Matches(n, for_ucm(pats[k])) }

\* C2: for every pattern_len in 3..10 and every sorted duplicate-free input
\* of simple / digit-set patterns, the output of summarize matches exactly the
\* 10-digit numbers the input matches.
C2_SummarizeKeepsNumbers ==
    (SmReturned /\ StrictlySorted(sm.i)) =>
        MatchedBy(sm.out, sm.pattern_len) = MatchedBy(sm.i, sm.pattern_len)

\* a pass that ejected a digit-set pattern for a series of several patterns
C2_Witness ==
    /\ SmReturned /\ StrictlySorted(sm.i)
    /\ Len(sm.out) < Len(sm.i)
    /\ \E k \in DOMAIN sm.out :
          /\ sm.out[k].summary # <<>>
          /\ Len(sm.out[k].prefix) = sm.pattern_len - 1
    /\ MatchedBy(sm.i, sm.pattern_len) # {}
    /\ MatchedBy(sm.i, sm.pattern_len) # TestNumbers(sm.pattern_len)

\* the step closes a series: the current pattern starts a new series while
\* one is pending
SmClosesSeries ==
    /\ SmInLoop
    /\ Len(SmCurrent.prefix) = sm.pattern_len
    /\ SmCurrent.summary = <<>>
    /\ sm.prefix # None
    /\ Front(SmCurrent.prefix) # sm.prefix

\* C5: for sorted input (equal elements allowed) a series is closed as the
\* simple pattern with prefix = the series prefix if and only if the digits
\* collected for the series include all of 0..9.
C5_WildcardIffAllDigits ==
    [][(SmClosesSeries /\ Sorted(sm.i) /\ Len(sm'.out) = Len(sm.out) + 1) =>
          ((Last(sm'.out) = Simple(sm.prefix)) <=> (Range(sm.summary) = Digits))]_vars

SeqToBag(s) == [x \in Range(s) |-> Cardinality({k \in DOMAIN s : s[k] = x})]

PassesThrough(p, pattern_len) ==
    Len(p.prefix) # pattern_len \/ p.summary # <<>>

\* the series prefixes of the input
SeriesOf(i, pattern_len) ==
    { Front(i[k].prefix) : k \in {j \in DOMAIN i : ~PassesThrough(i[j], pattern_len)} }

\* pattern r stands for the series with prefix q
StandsFor(r, q, pattern_len) ==
    \/ r.prefix = q
    \/ Len(r.prefix) = pattern_len /\ Front(r.prefix) = q /\ r.summary = <<>>

\* C9: for sorted input the output of summarize is exactly every input pattern
\* of another prefix length or with a digit-set, unchanged, plus one pattern
\* per series of digit-set-free patterns of length pattern_len sharing their
\* first pattern_len - 1 digits, the last series included; the end marker is
\* never in the output; empty input gives empty output.
C9_OutputShape ==
    (SmReturned /\ Sorted(sm.i)) =>
        LET L == sm.pattern_len
            passed == SeqToBag(SelectSeq(sm.i, LAMBDA p : PassesThrough(p, L)))
            outbag == SeqToBag(sm.out)
            rest == outbag (-) passed
        IN  /\ passed \sqsubseteq outbag
            /\ BagCardinality(rest) = Cardinality(SeriesOf(sm.i, L))
            /\ \A q \in SeriesOf(sm.i, L) :
                  \E r \in BagToSet(rest) : StandsFor(r, q, L)
            /\ Marker(L) \notin Range(sm.out)
            /\ (sm.i = <<>> => sm.out = <<>>)

\* a sorted input with passed-through patterns and two series, whose last
\* series is ejected at the end marker
C9_Witness ==
    /\ SmReturned /\ Sorted(sm.i)
    /\ Cardinality(SeriesOf(sm.i, sm.pattern_len)) = 2
    /\ \E k \in DOMAIN sm.i : PassesThrough(sm.i[k], sm.pattern_len)
    /\ ~PassesThrough(Last(sm.i), sm.pattern_len)
    /\ Len(sm.out) >= 3

(***************************************************************************)
(* Pattern(p, start, end) followed by expand()                             *)
(*                                                                         *)
(* ex.p / ex.start / ex.end are the constructor arguments, ex.pattern the  *)
(* constructed object, ex.result the list of what expand() yields.         *)
(***************************************************************************)
MaxWidth == 2

InputDigits == {0, 1, 9}

InitExpand ==
    /\ \E w \in 0..MaxWidth :
       \E start \in [1..w -> InputDigits] :
       \E end \in [1..w -> InputDigits] :
          ex = [pc |-> "new", p |-> <<5, 5>>, start |-> start, end |-> end,
                pattern |-> Simple(<<>>), result |-> <<>>]
    /\ lc = LcIdle
    /\ sm = SmIdle
    /\ cmp = CmpIdle
    /\ op = OpIdle

\* lines 142-147
ex_construct ==
    /\ ex.pc = "new"
    /\ ex' = IF Pattern_init_raises(ex.start, ex.end)
             THEN [ex EXCEPT !.pc = "raised"]
             ELSE [ex EXCEPT !.pc = "constructed",
                             !.pattern = Pattern_init(ex.p, ex.start, ex.end)]
    /\ UNCHANGED <<lc, sm, cmp, op>>

\* line 255: a digit-set is assigned to a pattern constructed with empty start
ex_set_summary ==
    /\ ex.pc = "constructed"
    /\ ex.pattern.start = <<>>
    /\ ex.pattern.summary = <<>>
    /\ ex' = [ex EXCEPT !.pattern = [@ EXCEPT !.summary = <<1, 2>>]]
    /\ UNCHANGED <<lc, sm, cmp, op>>

\* lines 200-203
ex_expand_simple ==
    /\ ex.pc = "constructed"
    /\ ex.pattern.start = <<>>
    /\ ex' = [ex EXCEPT !.pc = "expanded", !.result = expand(ex.pattern)]
    /\ UNCHANGED <<lc, sm, cmp, op>>

\* lines 204-213
ex_expand_range ==
    /\ ex.pc = "constructed"
    /\ ex.pattern.start # <<>>
    /\ ex' = [ex EXCEPT !.pc = "expanded", !.result = expand(ex.pattern)]
    /\ UNCHANGED <<lc, sm, cmp, op>>

NextExpand ==
    \/ ex_construct
    \/ ex_set_summary
    \/ ex_expand_simple
    \/ ex_expand_range

SpecExpand == InitExpand /\ [][NextExpand]_vars

(***************************************************************************)
(* Properties of the constructor and of expand                             *)
(***************************************************************************)
IsDigitString(s) == \A k \in DOMAIN s : s[k] \in Digits

\* C3: expand() of a range pattern with stored start <= end of equal width
\* d >= 1 yields exactly the simple patterns prefix + zero-padded(i, d) for
\* i = start..end, once each, ascending; a pattern with empty start yields
\* itself.
C3_ExpandCoversRange ==
    ex.pc = "expanded" =>
        LET pat == ex.pattern
            d == Len(pat.start)
            s == StrToInt(pat.start)
            e == StrToInt(pat.end)
            n == Len(pat.prefix)
        IN  IF pat.start = <<>>
            THEN ex.result = <<pat>>
            ELSE (Len(pat.end) = d /\ s <= e) =>
                   /\ Len(ex.result) = e - s + 1
                   /\ \A k \in 1..(e - s + 1) :
                        LET r == ex.result[k]
                        IN  /\ r.start = <<>> /\ r.end = <<>> /\ r.summary = <<>>
                            /\ Len(r.prefix) = n + d
                            /\ SubSeq(r.prefix, 1, n) = pat.prefix
                            /\ IsDigitString(SubSeq(r.prefix, n + 1, n + d))
                            /\ StrToInt(SubSeq(r.prefix, n + 1, n + d)) = s + k - 1

\* a range with a leading zero in start expanded to several patterns
C3_Witness ==
    /\ ex.pc = "expanded"
    /\ ex.pattern.start # <<>>
    /\ ex.pattern.start[1] = 0
    /\ StrToInt(ex.pattern.start) < StrToInt(ex.pattern.end)
    /\ Len(ex.result) >= 3

\* the length of the longest trailing run of positions where start has 0
\* and end has 9
TrailingRun(start, end) ==
    LET w == Len(start)
        runs == { k \in 0..w : \A j \in 1..k : start[w - j + 1] = 0 /\ end[w - j + 1] = 9 }
    IN  CHOOSE k \in runs : \A m \in runs : m <= k

\* C6: after construction from start and end of equal width the stored start
\* and end are the arguments without their longest common trailing run of
\* (0, 9) positions, so the stored end never ends in 9 while the stored
\* start ends in 0; "00"/"99" gives ""/"" and "10"/"90" stays; the prefix
\* is the argument.
C6_TrimIsCanonical ==
    ex.pc \in {"constructed", "expanded"} =>
        LET w == Len(ex.start)
            t == TrailingRun(ex.start, ex.end)
        IN  /\ ex.pattern.start = SubSeq(ex.start, 1, w - t)
            /\ ex.pattern.end = SubSeq(ex.end, 1, w - t)
            /\ ex.pattern.prefix = ex.p
            /\ ~(/\ ex.pattern.end # <<>>
                 /\ Last(ex.pattern.end) = 9
                 /\ Last(ex.pattern.start) = 0)
            /\ (ex.start = <<0, 0>> /\ ex.end = <<9, 9>>) =>
                  (ex.pattern.start = <<>> /\ ex.pattern.end = <<>>)
            /\ (ex.start = <<1, 0>> /\ ex.end = <<9, 0>>) =>
                  (ex.pattern.start = <<1, 0>> /\ ex.pattern.end = <<9, 0>>)

\* start = "00", end = "99" constructed and trimmed to a simple pattern
C6_Witness ==
    /\ ex.pc = "constructed"
    /\ ex.start = <<0, 0>> /\ ex.end = <<9, 9>>
    /\ ex.pattern.start = <<>>

(***************************************************************************)
(* The comparison operators on three patterns                              *)
(***************************************************************************)
OrderUniverse ==
    { Simple(<<5, 5>>), Simple(<<5, 5, 5>>),
      DigitSet(<<5, 5>>, <<1, 2>>), DigitSet(<<5, 5>>, <<1, 3>>),
      Pattern_init(<<5, 5>>, <<1, 2>>, <<3, 4>>),
      Pattern_init(<<5, 5>>, <<1, 2>>, <<3, 5>>),
      Pattern_init(<<5, 5>>, <<1, 3>>, <<3, 4>>),
      Pattern_init(<<5, 6>>, <<0, 0>>, <<9, 9>>) }

InitOrder ==
    /\ \E a \in OrderUniverse : \E b \in OrderUniverse : \E c \in OrderUniverse :
          cmp = [pc |-> "new", a |-> a, b |-> b, c |-> c,
                 lt_ab |-> FALSE, eq_ab |-> FALSE, gt_ab |-> FALSE,
                 lt_bc |-> FALSE, lt_ac |-> FALSE]
    /\ lc = LcIdle
    /\ sm = SmIdle
    /\ ex = ExIdle
    /\ op = OpIdle

\* a < b, a == b, a > b, b < c, a < c
cmp_compare ==
    /\ cmp.pc = "new"
    /\ cmp' = [cmp EXCEPT !.pc = "compared",
                          !.lt_ab = Pattern_lt(cmp.a, cmp.b),
                          !.eq_ab = Pattern_eq(cmp.a, cmp.b),
                          !.gt_ab = Pattern_gt(cmp.a, cmp.b),
                          !.lt_bc = Pattern_lt(cmp.b, cmp.c),
                          !.lt_ac = Pattern_lt(cmp.a, cmp.c)]
    /\ UNCHANGED <<lc, sm, ex, op>>

NextOrder == cmp_compare

SpecOrder == InitOrder /\ [][NextOrder]_vars

ExactlyOne(x, y, z) == (x /\ ~y /\ ~z) \/ (~x /\ y /\ ~z) \/ (~x /\ ~y /\ z)

AtMostOne(x, y, z) == ~(x /\ y) /\ ~(x /\ z) /\ ~(y /\ z)

\* C4 as stated: for every two patterns exactly one of a < b, a == b, a > b
\* holds, and < is transitive.
C4_Trichotomy ==
    cmp.pc = "compared" =>
        /\ ExactlyOne(cmp.lt_ab, cmp.eq_ab, cmp.gt_ab)
        /\ (cmp.lt_ab /\ cmp.lt_bc) => cmp.lt_ac

\* C4 amended: at most one of a < b, a == b, a > b holds; exactly one holds
\* when a and b have the same end (so for all simple and digit-set patterns);
\* none holds exactly when prefix, start and digit-set agree and end differs;
\* < is transitive.
C4_TrichotomyOnEqualEnd ==
    cmp.pc = "compared" =>
        /\ AtMostOne(cmp.lt_ab, cmp.eq_ab, cmp.gt_ab)
        /\ cmp.a.end = cmp.b.end => ExactlyOne(cmp.lt_ab, cmp.eq_ab, cmp.gt_ab)
        /\ (~cmp.lt_ab /\ ~cmp.eq_ab /\ ~cmp.gt_ab) <=>
              /\ cmp.a.prefix = cmp.b.prefix
              /\ cmp.a.start = cmp.b.start
              /\ cmp.a.summary = cmp.b.summary
              /\ cmp.a.end # cmp.b.end
        /\ (cmp.lt_ab /\ cmp.lt_bc) => cmp.lt_ac

\* two digit-set patterns of one prefix compared, with a third pattern above
C4_Witness ==
    /\ cmp.pc = "compared"
    /\ cmp.a.prefix = cmp.b.prefix /\ cmp.a.start = cmp.b.start
    /\ cmp.a.summary # <<>> /\ cmp.b.summary # <<>>
    /\ cmp.lt_ab /\ cmp.lt_bc /\ cmp.lt_ac

(***************************************************************************)
(* optimize_patterns(patterns)                                             *)
(*                                                                         *)
(* A CSV record is a record of strings; Absent marks a key the record      *)
(* does not have.  op.records is the argument, op.patterns the local list, *)
(* op.pattern_len the loop variable, op.error the exception that ended     *)
(* the call.                                                               *)
(***************************************************************************)
MaxBatch == 2

Absent == <<-2>>

Record(nir, serie, inicial, final, tipo) ==
    [NIR |-> nir, SERIE |-> serie, NUMERACION_INICIAL |-> inicial,
     NUMERACION_FINAL |-> final, TIPO_RED |-> tipo]

RecordUniverse ==
    { Record(<<5, 5>>, <<5, 1, 2, 3>>, <<0, 0, 0, 0>>, <<9, 9, 9, 9>>, "MOVIL"),
      Record(<<5, 5>>, <<5, 1, 2, 4>>, <<0, 0, 0, 0>>, <<4, 9, 9, 9>>, "MOVIL"),
      Record(<<5, 5>>, <<5, 1, 2, 4>>, <<5, 0, 0, 0>>, <<9, 9, 9, 9>>, "FIJO"),
      Record(<<5, 5>>, <<5, 1, 2, 5>>, <<0>>, <<9, 9, 9>>, "MOVIL"),
      Record(<<5, 5>>, <<5, 1, 2, 5>>, <<1, 0, 0, 0>>, <<9, 9, 9, 9>>, "MOVIL"),
      Record(<<5, 5>>, <<5, 1, 2, 6>>, <<5, 0, 0, 0>>, <<4, 0, 0, 0>>, "MOVIL"),
      Record(<<5, 5>>, <<5, 1, 2, 7>>, <<1, 2, CharA, 4>>, <<9, 9, 9, 9>>, "MOVIL"),
      Record(<<5, 5>>, <<5, 1, 2, 8>>, <<0, 0, 0, 0>>, Absent, "MOVIL") }

\* int(s) raises ValueError unless s is a non-empty string of digits
int_raises(s) == s = <<>> \/ ~(\A k \in DOMAIN s : s[k] \in Digits)

\* Pattern(p) for a CSV record p, lines 136-147: the exception raised, or ""
Pattern_from_record_error(p) ==
    IF p.NIR = Absent \/ p.SERIE = Absent \/ p.NUMERACION_INICIAL = Absent
    THEN "KeyError"
    ELSE IF int_raises(p.NUMERACION_INICIAL) THEN "ValueError"
    ELSE IF p.NUMERACION_FINAL = Absent THEN "KeyError"
    ELSE IF int_raises(p.NUMERACION_FINAL) THEN "ValueError"
    ELSE IF Pattern_init_raises(Format(StrToInt(p.NUMERACION_INICIAL), 4),
                                Format(StrToInt(p.NUMERACION_FINAL), 4))
    THEN "IndexError"
    ELSE ""

Pattern_from_record(p) ==
    Pattern_init(p.NIR \o p.SERIE,
                 Format(StrToInt(p.NUMERACION_INICIAL), 4),
                 Format(StrToInt(p.NUMERACION_FINAL), 4))

\* list.sort(): stable, by __lt__ only
RECURSIVE Insert(_, _)
Insert(s, x) ==
    IF s = <<>> THEN <<x>>
    ELSE IF Pattern_lt(x, Last(s)) THEN Append(Insert(Front(s), x), Last(s))
    ELSE Append(s, x)

RECURSIVE sort(_)
sort(s) == IF s = <<>> THEN <<>> ELSE Insert(sort(Front(s)), Last(s))

\* line 311: the records kept by the filter, in order
Mobile(records) == SelectSeq(records, LAMBDA p : p.TIPO_RED = "MOVIL")

\* line 311: the exception of the first mobile record whose construction
\* raises, or ""
RECURSIVE first_error(_)
first_error(records) ==
    IF records = <<>> THEN ""
    ELSE IF Pattern_from_record_error(Head(records)) # ""
    THEN Pattern_from_record_error(Head(records))
    ELSE first_error(Tail(records))

InitOptimize ==
    /\ \E records \in SeqsUpTo(RecordUniverse, MaxBatch) :
          op = [pc |-> "call", records |-> records, patterns |-> <<>>,
                pattern_len |-> 0, error |-> ""]
    /\ lc = LcIdle
    /\ sm = SmIdle
    /\ ex = ExIdle
    /\ cmp = CmpIdle

\* line 311, a record's construction raises
op_construct_raises ==
    /\ op.pc = "call"
    /\ first_error(Mobile(op.records)) # ""
    /\ op' = [op EXCEPT !.pc = "raised", !.error = first_error(Mobile(op.records))]
    /\ UNCHANGED <<lc, sm, ex, cmp>>

\* line 311
op_construct ==
    /\ op.pc = "call"
    /\ first_error(Mobile(op.records)) = ""
    /\ op' = [op EXCEPT !.pc = "constructed",
                        !.patterns = [k \in 1..Len(Mobile(op.records)) |->
                                         Pattern_from_record(Mobile(op.records)[k])]]
    /\ UNCHANGED <<lc, sm, ex, cmp>>

\* line 316
op_sort ==
    /\ op.pc = "constructed"
    /\ op' = [op EXCEPT !.pc = "sorted", !.patterns = sort(@)]
    /\ UNCHANGED <<lc, sm, ex, cmp>>

\* line 320
op_expand ==
    /\ op.pc = "sorted"
    /\ op' = [op EXCEPT !.pc = "loop", !.patterns = expand_patterns(@),
                        !.pattern_len = MaxPatternLen]
    /\ UNCHANGED <<lc, sm, ex, cmp>>

\* lines 323-327, one iteration of for pattern_len in range(10, 2, -1)
op_pass ==
    /\ op.pc = "loop"
    /\ op.pattern_len >= MinPatternLen
    /\ op' = [op EXCEPT !.patterns = summarize(sort(@), op.pattern_len),
                        !.pattern_len = @ - 1]
    /\ UNCHANGED <<lc, sm, ex, cmp>>

\* line 328
op_return ==
    /\ op.pc = "loop"
    /\ op.pattern_len < MinPatternLen
    /\ op' = [op EXCEPT !.pc = "returned"]
    /\ UNCHANGED <<lc, sm, ex, cmp>>

NextOptimize ==
    \/ op_construct_raises
    \/ op_construct
    \/ op_sort
    \/ op_expand
    \/ op_pass
    \/ op_return

SpecOptimize == InitOptimize /\ [][NextOptimize]_vars

(***************************************************************************)
(* Properties of optimize_patterns                                         *)
(***************************************************************************)
\* a mobile record with a missing field, a non-numeric bound, or its block
\* start above its block end
Malformed(p) ==
    /\ p.TIPO_RED = "MOVIL"
    /\ \/ Absent \in {p.NIR, p.SERIE, p.NUMERACION_INICIAL, p.NUMERACION_FINAL}
       \/ int_raises(p.NUMERACION_INICIAL)
       \/ int_raises(p.NUMERACION_FINAL)
       \/ StrToInt(p.NUMERACION_INICIAL) > StrToInt(p.NUMERACION_FINAL)

\* C7: a batch with a malformed mobile record ends in an error before the
\* record reaches expand; no pattern list is returned for it.
C7_MalformedFailsBatch ==
    (\E k \in DOMAIN op.records : Malformed(op.records[k])) =>
        op.pc \in {"call", "raised"}

\* every mobile record of the batch is well-formed
WellFormedBatch == \A k \in DOMAIN op.records : ~Malformed(op.records[k])

NoRangePattern(ps) == \A k \in DOMAIN ps : ps[k].start = <<>> /\ ps[k].end = <<>>

\* no two digit-set-free patterns of prefix length L share their first
\* L - 1 digits
NoSharedSeries(ps, L) ==
    \A j \in DOMAIN ps : \A k \in DOMAIN ps :
        (/\ j # k
         /\ ps[j].summary = <<>> /\ ps[k].summary = <<>>
         /\ Len(ps[j].prefix) = L /\ Len(ps[k].prefix) = L)
        => Front(ps[j].prefix) # Front(ps[k].prefix)

\* C11: for a batch of well-formed mobile records, once the pass for length
\* L has run the list holds no range pattern and, for every length from L up
\* to 10, no two digit-set-free patterns of that prefix length sharing their
\* first digits but the last; later passes keep this, so the returned list
\* has it for every L in 3..10.
C11_ResultIsReduced ==
    (WellFormedBatch /\ op.pc \in {"loop", "returned"}) =>
        /\ NoRangePattern(op.patterns)
        /\ \A L \in (op.pattern_len + 1)..MaxPatternLen :
              NoSharedSeries(op.patterns, L)
        /\ op.pc = "returned" => op.pattern_len = MinPatternLen - 1

\* a returned list for two well-formed mobile records, holding a digit-set
\* pattern made from an expanded range next to another pattern
C11_Witness ==
    /\ op.pc = "returned"
    /\ WellFormedBatch
    /\ Len(Mobile(op.records)) = 2
    /\ Len(op.patterns) >= 2
    /\ \E k \in DOMAIN op.patterns : Len(op.patterns[k].summary) >= 2

(***************************************************************************)
(* summarize and list_compare on arguments of any order                    *)
(***************************************************************************)
InitAlgorithms == InitCompare \/ InitSummarize

NextAlgorithms == NextCompare \/ NextSummarize

SpecAlgorithms == InitAlgorithms /\ [][NextAlgorithms]_vars

\* C8 as stated: summarize on unsorted input and list_compare on unsorted or
\* duplicated input end in an error and never return a result.
C8_ViolationSignaled ==
    /\ (sm.pc \in {"loop", "done"} => Sorted(sm.i))
    /\ (lc.pc \in {"loop", "done"} => LcPre)

\* C8 amended: summarize and list_compare check nothing: on every input,
\* sorted or not, duplicate-free or not, no error is signaled, the loop runs
\* once per element and a result is returned.
C8_NothingSignaled ==
    /\ sm.pc # "raised"
    /\ lc.pc # "raised"
    /\ sm.pc \in {"call", "loop"} => ENABLED NextSummarize
    /\ lc.pc \in {"call", "loop"} => ENABLED NextCompare
    /\ sm.pc = "done" => sm.pos = Len(sm.i) + 2
    /\ lc.pc = "done" => lc.iters <= Len(lc.old) + Len(lc.new) + 1

\* summarize returned for an unsorted input
C8_Witness ==
    /\ sm.pc = "done"
    /\ ~Sorted(sm.i)
    /\ sm.out # <<>>

====
